---- MODULE Spec2Model ----
(***************************************************************************)
(* Model of package extractor (extractor.go): a session created by New, a  *)
(* producer goroutine running the recursive extract over the input, and a  *)
(* single consumer pulling filestreams with Next / NextWithError over the  *)
(* channel e.c.                                                            *)
(*                                                                         *)
(* The input is the nesting structure of the bytes handed to New: what     *)
(* mime.Detect answers for each stream, whether each decoder can be        *)
(* constructed, which entries each container holds and how its entry       *)
(* iteration ends.  File names are sequences of one-character strings, so  *)
(* that concatenation, strings.Split and filepath.Ext are computed.        *)
(***************************************************************************)
EXTENDS Integers, Sequences, FiniteSets, TLC

VARIABLES
    input,      \* the nesting structure of the bytes behind e.r
    er,         \* dynamic type of e.r: "osfile" (*os.File) or "other"
    filename,   \* e.filename
    once,       \* e.once has fired
    chanbuf,    \* values buffered in e.c (always empty when ChanCap = 0)
    closed,     \* close(e.c) has happened
    pstate,     \* producer goroutine: "none", "running", "done", "crashed"
    stack,      \* call stack of extract frames, innermost last
    cpc,        \* consumer: "idle" (between calls) or "recv" (blocked in <-e.c)
    capi,       \* the method the consumer is in: "Next" or "NextWithError"
    rets,       \* history: what each finished call returned
    sent,       \* history: every filestream given to a send on e.c, in order
    nrecv,      \* history: number of filestreams the consumer received
    dropped,    \* history: filestreams Next received and discarded
    spawned,    \* history: number of producer goroutines ever started
    peeks,      \* history: number of reads (Peek) performed on any stream
    calls,      \* history: number of Next / NextWithError calls begun
    log         \* history: what happened to each filestream built, in order

vars == <<input, er, filename, once, chanbuf, closed, pstate, stack, cpc, capi,
          rets, sent, nrecv, dropped, spawned, peeks, calls, log>>

(***************************************************************************)
(* Bounds of the model.                                                    *)
(***************************************************************************)
\* entries (directories included) of a generated multi-entry container
MaxEntries == 2
\* calls the consumer still makes after a call has returned more = false
MaxExtraPulls == 1

(***************************************************************************)
(* Strings.                                                                *)
(***************************************************************************)
Sep == <<":">>

NameXTarGz == <<"x", ".", "t", "a", "r", ".", "g", "z">>
NameXBz2 == <<"x", ".", "b", "z", "2">>
NameXXz == <<"x", ".", "x", "z">>
NameXLz4 == <<"x", ".", "l", "z", "4">>
NameXTar == <<"x", ".", "t", "a", "r">>
NameATxt == <<"a", ".", "t", "x", "t">>
NameBDir == <<"b", "/">>
NameCBin == <<"c", ".", "b", "i", "n">>

ExtGz == <<".", "g", "z">>
ExtBz2 == <<".", "b", "z", "2">>
ExtXz == <<".", "x", "z">>
ExtLz4 == <<".", "l", "z", "4">>

\* strings.Split(s, sep)[last]: the part of s after the last separator
LastSegment(s, sep) ==
    LET at == {i \in 1..Len(s) : s[i] = sep[1]}
    IN  IF at = {} THEN s
        ELSE SubSeq(s, (CHOOSE i \in at : \A j \in at : j <= i) + 1, Len(s))

\* filepath.Ext(base): from the last dot of the last path element, else ""
Ext(base) ==
    LET dots == {i \in 1..Len(base) :
                    /\ base[i] = "."
                    /\ \A j \in (i + 1)..Len(base) : base[j] # "." /\ base[j] # "/"}
    IN  IF dots = {} THEN <<>>
        ELSE SubSeq(base, CHOOSE i \in dots : TRUE, Len(base))

\* the name given to the child of a compression-only stream (bzip2, xz, lz4)
StripName(fname, sep, suffix) ==
    LET base == LastSegment(fname, sep)
        ext == Ext(base)
    IN  IF ext = suffix
        THEN fname \o sep \o SubSeq(base, 1, Len(base) - Len(ext))
        ELSE fname

\* the name given to the child of a gzip stream
GzipName(fname, sep, rname) == fname \o sep \o rname

\* the name given to an entry of a zip, tar or rar container
EntryName(fname, sep, ename) == fname \o sep \o ename

(***************************************************************************)
(* The input: a stream is a node [fmt, ctor, name, kids, end].             *)
(*   fmt   what mime.Detect answers for the stream's first bytes           *)
(*   ctor  "ok", or how constructing the decoder fails: "err" (NewReader   *)
(*         returns an error) or "staterr" (zip only: of.Stat() fails)      *)
(*   name  gzip only: the file name stored in the gzip header (r.Name)     *)
(*   kids  the streams inside: one for gzip, bzip2, xz and lz4, the        *)
(*         entries in native order for zip, tar and rar                    *)
(*   end   tar and rar: how entry iteration ends after the last entry,     *)
(*         "EOF" (io.EOF) or "err" (any other error of r.Next())           *)
(* An entry is [name, dir, openOk, content]: dir marks a directory entry   *)
(* (tar: Typeflag # TypeReg, rar: IsDir, zip: a name ending in "/"),       *)
(* openOk is whether zip's file.Open() succeeds.                           *)
(***************************************************************************)
Mk(fmt, ctor, name, kids, end) ==
    [fmt |-> fmt, ctor |-> ctor, name |-> name, kids |-> kids, end |-> end]

Leaf == Mk("none", "ok", <<>>, <<>>, "EOF")
GzipBad == Mk("gzip", "err", <<>>, <<>>, "EOF")
XzBad == Mk("xz", "err", <<>>, <<>>, "EOF")
RarBad == Mk("rar", "err", <<>>, <<>>, "EOF")
ZipEmpty == Mk("zip", "ok", <<>>, <<>>, "EOF")
ZipStatBad == Mk("zip", "staterr", <<>>, <<>>, "EOF")
ZipBad == Mk("zip", "err", <<>>, <<>>, "EOF")

Ent(name, dir, openOk, content) ==
    [name |-> name, dir |-> dir, openOk |-> openOk, content |-> content]

OneKid(content) == <<Ent(<<>>, FALSE, TRUE, content)>>

Gz(rname, content) == Mk("gzip", "ok", rname, OneKid(content), "EOF")
Bz2(content) == Mk("bzip2", "ok", <<>>, OneKid(content), "EOF")
Xz(content) == Mk("xz", "ok", <<>>, OneKid(content), "EOF")
Lz4(content) == Mk("lz4", "ok", <<>>, OneKid(content), "EOF")
Tar(kids, end) == Mk("tar", "ok", <<>>, kids, end)
Rar(kids, end) == Mk("rar", "ok", <<>>, kids, end)
Zip(kids) == Mk("zip", "ok", <<>>, kids, "EOF")

\* streams that extract does not descend into (a zip is one unless it is
\* the top-level *os.File)
Terminals == {Leaf, GzipBad, XzBad, RarBad, ZipEmpty}

\* the contents given to the entries of a generated container
EntryContents == {Leaf, GzipBad, ZipEmpty}

GzNames == {<<>>, NameXTar}

Singles(S) ==
    {Gz(n, c) : n \in GzNames, c \in S}
        \cup {Bz2(c) : c \in S} \cup {Xz(c) : c \in S} \cup {Lz4(c) : c \in S}

\* generated entries are named by position and kind
GenEntryName(i, dir) ==
    IF dir THEN NameBDir ELSE IF i % 2 = 1 THEN NameATxt ELSE NameCBin

EntryChoices ==
    {Ent(<<>>, TRUE, TRUE, Leaf)} \cup {Ent(<<>>, FALSE, TRUE, c) : c \in EntryContents}

ZipEntryChoices == EntryChoices \cup {Ent(<<>>, FALSE, FALSE, Leaf)}

EntrySeqs(C) ==
    {<<>>} \cup UNION {
        {[i \in 1..k |-> [ch[i] EXCEPT !.name = GenEntryName(i, ch[i].dir)]] :
            ch \in [1..k -> C]} : k \in 1..MaxEntries}

Containers ==
    {Tar(es, end) : es \in EntrySeqs(EntryChoices), end \in {"EOF", "err"}}
        \cup {Rar(es, end) : es \in EntrySeqs(EntryChoices), end \in {"EOF", "err"}}
        \cup {Zip(es) : es \in EntrySeqs(ZipEntryChoices)}
        \cup {ZipStatBad, ZipBad}

\* "x.tar.gz": a gzip (no stored name) of a tar of a.txt, b/ and c.bin
ScenarioTar ==
    Tar(<<Ent(NameATxt, FALSE, TRUE, Leaf), Ent(NameBDir, TRUE, TRUE, Leaf),
          Ent(NameCBin, FALSE, TRUE, Leaf)>>, "EOF")
ScenarioXTarGz == Gz(<<>>, ScenarioTar)
ScenarioXTarGzNamed == Gz(NameXTar, ScenarioTar)

\* a container inside a container inside a compressed stream
ScenarioNested ==
    Gz(<<>>, Tar(<<Ent(NameATxt, FALSE, TRUE,
                        Rar(<<Ent(NameATxt, FALSE, TRUE, Leaf),
                              Ent(NameCBin, FALSE, TRUE, Bz2(Leaf))>>, "EOF")),
                   Ent(NameCBin, FALSE, TRUE, Leaf)>>, "EOF"))

\* a top-level zip holding a tar and a zip
ScenarioZip ==
    Zip(<<Ent(NameATxt, FALSE, TRUE, Tar(<<Ent(NameATxt, FALSE, TRUE, Leaf)>>, "EOF")),
          Ent(NameBDir, TRUE, TRUE, Leaf),
          Ent(NameCBin, FALSE, TRUE, ZipEmpty)>>)

Scenarios == {ScenarioXTarGz, ScenarioXTarGzNamed, ScenarioNested, ScenarioZip}

Inputs == Terminals \cup Singles(Terminals) \cup Containers \cup Scenarios

TopNames == {NameXTarGz, NameXBz2, NameXXz, NameXLz4}

ReaderTypes == {"osfile", "other"}

(***************************************************************************)
(* Filestreams, frames of extract, the channel.                            *)
(***************************************************************************)
\* a filestream: r is the dynamic type of its reader ("osfile", "bufio",
\* "other" for a decoder or entry reader), err is "nil" or the error, off
\* is the number of bytes already consumed from the reader
FSAt(r, fname, err, off) == [r |-> r, filename |-> fname, err |-> err, off |-> off]

FS(r, fname, err) == FSAt(r, fname, err, 0)

NoFS == FS("nil", <<>>, "nil")

\* a channel made with room for one filestream
ChanCapOne == Len(<<NoFS>>)

\* make(chan *filestream): the capacity of e.c
ChanCap == 0

\* mime.Detect(buf) on the peeked bytes of a stream
Detect(node) == node.fmt

\* the number of bytes br.Peek asks for
PeekLen == 512

\* a sniff that reads the bytes instead of peeking at them
AfterRead(off, n) == off + n

\* br.Peek(n) returns the next bytes without advancing the reader
AfterPeek(off, n) == off

\* the bytes a decoder constructor has read from br when it returns an
\* error: gzip.NewReader its 10-byte header, xz.NewReader its 12-byte stream
\* header, rardecode.NewReader the 7-byte signature; zip.NewReader and
\* of.Stat() work on the file, not on br
CtorReads(fmt) ==
    CASE fmt = "gzip" -> 10
      [] fmt = "xz" -> 12
      [] fmt = "rar" -> 7
      [] OTHER -> 0

\* a filestream sent with the reader it was given
Unwrapped(r) == r

\* br: f.r itself if it is a *bufio.Reader, else bufio.NewReader(f.r)
Buffered(r) == "bufio"

\* a type test that every reader passes
IsAnyReader(r) == TRUE

\* of, ok := f.r.(*os.File)
IsOsFile(r) == r = "osfile"

\* a frame of extract: its argument f, the stream f.r reads, the position
\* of f in the nesting (entry indices from the top), the place the frame is
\* at, the number of entries its loop has taken, and, while it is blocked in
\* a send, the filestream being sent and the place it goes on from
Frame(f, node, path) ==
    [f |-> f, node |-> node, path |-> path, pc |-> "start", i |-> 0,
     snd |-> NoFS, after |-> "start"]

Top == stack[Len(stack)]

SetTop(fr) == [stack EXCEPT ![Len(stack)] = fr]

Running == pstate = "running" /\ stack # <<>>

At(pc) == Running /\ Top.pc = pc

\* an entry of the history log: "new" a filestream is built
\* (&filestream{...}), "call" it is the argument of an extract call, "open"
\* extract has a decoder or archive reader over it and goes on to its
\* content, "send" it is given to a send on e.c
Ev(ev, path) == [ev |-> ev, path |-> path]

\* the frame reaches `e.c <- fs` and blocks there; fs is the frame's own f
\* or a filestream built in the send statement
Emit(fr, fs, path, after) ==
    /\ stack' = SetTop([fr EXCEPT !.pc = "send", !.snd = fs, !.after = after])
    /\ sent' = Append(sent, [fs |-> fs, path |-> path])
    /\ log' = log \o (IF path = fr.path THEN <<>> ELSE <<Ev("new", path)>>)
                 \o <<Ev("send", path)>>

\* the frame has its archive reader and enters the loop over the entries
Open(fr, loop) ==
    /\ stack' = SetTop([fr EXCEPT !.pc = loop])
    /\ sent' = sent
    /\ log' = Append(log, Ev("open", fr.path))

\* the frame calls e.extract(child) and goes on from `after` when it returns
Recurse(fr, after, child) ==
    /\ stack' = Append(SetTop([fr EXCEPT !.pc = after]), child)
    /\ sent' = sent
    /\ log' = log \o (IF fr.pc = "start" THEN <<Ev("open", fr.path)>> ELSE <<>>)
                 \o <<Ev("new", child.path), Ev("call", child.path)>>

\* a failure or leaf branch that returns without its send
DropSelf(err, used) ==
    /\ stack' = SetTop([Top EXCEPT !.pc = "ret"])
    /\ sent' = sent
    /\ log' = log

\* f.err = err; f.r = br; e.c <- f; return, br having been peeked at and
\* `used` of its bytes read
EmitSelf(err, used) ==
    Emit(Top, FSAt(Buffered(Top.f.r), Top.f.filename, err, AfterPeek(0, PeekLen) + used),
         Top.path, "ret")

\* a loop that walks r.File from its end
ZipEntryAtReversed(k, n) == n + 1 - k

\* the k-th iteration of `for _, file := range r.File` takes r.File[k-1]
ZipEntryAt(k, n) == k

Init ==
    /\ input \in Inputs
    /\ er \in ReaderTypes
    /\ filename \in TopNames
    /\ once = FALSE
    /\ chanbuf = <<>>
    /\ closed = FALSE
    /\ pstate = "none"
    /\ stack = <<>>
    /\ cpc = "idle"
    /\ capi = "Next"
    /\ rets = <<>>
    /\ sent = <<>>
    /\ nrecv = 0
    /\ dropped = <<>>
    /\ spawned = 0
    /\ peeks = 0
    /\ calls = 0
    /\ log = <<>>

ProducerOnly ==
    UNCHANGED <<input, er, filename, once, chanbuf, closed, pstate, cpc, capi,
                rets, nrecv, dropped, spawned, calls>>

(***************************************************************************)
(* extract, one action per branch head and per loop iteration.  Each       *)
(* branch head is the Peek, the Detect and the code of the branch up to    *)
(* its first send or recursive call.                                       *)
(***************************************************************************)
ExtractGzip ==
    /\ At("start") /\ Detect(Top.node) = "gzip"
    /\ peeks' = peeks + 1
    /\ IF Top.node.ctor # "ok"
       THEN EmitSelf("ctorErr", CtorReads("gzip"))
       ELSE Recurse(Top, "ret",
                    Frame(FS("other", GzipName(Top.f.filename, Sep, Top.node.name), "nil"),
                          Top.node.kids[1].content, Top.path \o <<1>>))
    /\ ProducerOnly

ExtractBzip2 ==
    /\ At("start") /\ Detect(Top.node) = "bzip2"
    /\ peeks' = peeks + 1
    /\ Recurse(Top, "ret",
               Frame(FS("other", StripName(Top.f.filename, Sep, ExtBz2), "nil"),
                     Top.node.kids[1].content, Top.path \o <<1>>))
    /\ ProducerOnly

ExtractZip ==
    /\ At("start") /\ Detect(Top.node) = "zip"
    /\ peeks' = peeks + 1
    /\ IF ~IsOsFile(Top.f.r) THEN EmitSelf("NestError", 0)
       ELSE IF Top.node.ctor = "staterr" THEN EmitSelf("statErr", 0)
       ELSE IF Top.node.ctor # "ok" THEN EmitSelf("ctorErr", CtorReads("zip"))
       ELSE Open(Top, "zloop")
    /\ ProducerOnly

\* one iteration of the range loop over r.File
ZipRange ==
    /\ At("zloop") /\ Top.i < Len(Top.node.kids)
    /\ LET k == ZipEntryAt(Top.i + 1, Len(Top.node.kids))
           file == Top.node.kids[k]
           fr == [Top EXCEPT !.i = Top.i + 1]
       IN  IF ~file.openOk
           THEN Emit(fr, FS(Buffered("other"), <<>>, "openErr"), Top.path \o <<k>>, "zloop")
           ELSE Recurse(fr, "zloop",
                        Frame(FS("other", EntryName(Top.f.filename, Sep, file.name), "nil"),
                              file.content, Top.path \o <<k>>))
    /\ peeks' = peeks
    /\ ProducerOnly

ExtractTar ==
    /\ At("start") /\ Detect(Top.node) = "tar"
    /\ peeks' = peeks + 1
    /\ Open(Top, "tloop")
    /\ ProducerOnly

\* hdr, err := r.Next() of the tar loop and the rest of the iteration;
\* an error other than io.EOF leaves hdr nil and hdr.Typeflag panics
TarNext ==
    /\ At("tloop")
    /\ peeks' = peeks
    /\ UNCHANGED <<input, er, filename, once, chanbuf, closed, cpc, capi,
                   rets, nrecv, dropped, spawned, calls>>
    /\ IF Top.i < Len(Top.node.kids)
       THEN LET hdr == Top.node.kids[Top.i + 1]
                fr == [Top EXCEPT !.i = Top.i + 1]
            IN  /\ pstate' = pstate
                /\ IF hdr.dir
                   THEN stack' = SetTop(fr) /\ sent' = sent /\ log' = log
                   ELSE Recurse(fr, "tloop",
                                Frame(FS("other", EntryName(Top.f.filename, Sep, hdr.name), "nil"),
                                      hdr.content, Top.path \o <<Top.i + 1>>))
       ELSE IF Top.node.end = "EOF"
       THEN /\ pstate' = pstate
            /\ Emit(Top, FS(Buffered("other"), <<>>, "EOF"), Top.path \o <<Top.i + 1>>, "ret")
       ELSE /\ pstate' = "crashed"
            /\ stack' = stack /\ sent' = sent /\ log' = log

ExtractRar ==
    /\ At("start") /\ Detect(Top.node) = "rar"
    /\ peeks' = peeks + 1
    /\ IF Top.node.ctor # "ok"
       THEN EmitSelf("ctorErr", CtorReads("rar"))
       ELSE Open(Top, "rloop")
    /\ ProducerOnly

\* hdr, err := r.Next() of the rar loop and the rest of the iteration
RarNext ==
    /\ At("rloop")
    /\ peeks' = peeks
    /\ IF Top.i < Len(Top.node.kids)
       THEN LET hdr == Top.node.kids[Top.i + 1]
                fr == [Top EXCEPT !.i = Top.i + 1]
            IN  IF hdr.dir
                THEN stack' = SetTop(fr) /\ sent' = sent /\ log' = log
                ELSE Recurse(fr, "rloop",
                             Frame(FS("other", EntryName(Top.f.filename, Sep, hdr.name), "nil"),
                                   hdr.content, Top.path \o <<Top.i + 1>>))
       ELSE Emit(Top, FS(Buffered("other"), <<>>, IF Top.node.end = "EOF" THEN "EOF" ELSE "iterErr"),
                 Top.path \o <<Top.i + 1>>, "ret")
    /\ ProducerOnly

ExtractXz ==
    /\ At("start") /\ Detect(Top.node) = "xz"
    /\ peeks' = peeks + 1
    /\ IF Top.node.ctor # "ok"
       THEN EmitSelf("ctorErr", CtorReads("xz"))
       ELSE Recurse(Top, "ret",
                    Frame(FS("other", StripName(Top.f.filename, Sep, ExtXz), "nil"),
                          Top.node.kids[1].content, Top.path \o <<1>>))
    /\ ProducerOnly

ExtractLz4 ==
    /\ At("start") /\ Detect(Top.node) = "lz4"
    /\ peeks' = peeks + 1
    /\ Recurse(Top, "ret",
               Frame(FS("other", StripName(Top.f.filename, Sep, ExtLz4), "nil"),
                     Top.node.kids[1].content, Top.path \o <<1>>))
    /\ ProducerOnly

\* not a nested archive: f.r = br; e.c <- f; return
ExtractLeaf ==
    /\ At("start") /\ Detect(Top.node) = "none"
    /\ peeks' = peeks + 1
    /\ EmitSelf("nil", 0)
    /\ ProducerOnly

\* a frame returns to its caller
Return ==
    /\ Running
    /\ \/ Top.pc = "ret"
       \/ Top.pc = "zloop" /\ Top.i = Len(Top.node.kids)
    /\ stack' = SubSeq(stack, 1, Len(stack) - 1)
    /\ sent' = sent /\ peeks' = peeks /\ log' = log
    /\ ProducerOnly

\* the goroutine's close(e.c) after the top-level extract has returned
GoClose ==
    /\ pstate = "running" /\ stack = <<>>
    /\ closed' = TRUE
    /\ pstate' = "done"
    /\ UNCHANGED <<input, er, filename, once, chanbuf, stack, cpc, capi, rets, sent,
                   nrecv, dropped, spawned, peeks, calls, log>>

(***************************************************************************)
(* The consumer: Next and NextWithError.                                   *)
(***************************************************************************)
\* a guard that lets every call run the block again
OnceFiresAlways(done) == TRUE

\* e.once.Do(f) runs f only if the Once has not fired
OnceFires(done) == ~done

\* a Next that returns whatever it receives
NextSkipsNothing(fs) == FALSE

\* Next: `if fs.err != nil { continue }`
NextSkips(fs) == fs.err # "nil"

\* fs.r.(*bufio.Reader): the reader if it has that type, else a run-time
\* panic
AsBufio(r) == IF r = "bufio" THEN r ELSE "panic"

\* a NextWithError that loses the error of the filestream
ResultWithoutErr(api, fs) == [r |-> fs.r, filename |-> fs.filename, err |-> "nil"]

\* what a call hands back for a received filestream; Next has no err result
Result(api, fs) ==
    IF api = "Next"
    THEN [r |-> AsBufio(fs.r), filename |-> fs.filename, err |-> "nil"]
    ELSE [r |-> AsBufio(fs.r), filename |-> fs.filename, err |-> fs.err]

\* a finished call: the method, its results, and (history) which send of the
\* producer the returned filestream came from, 0 when more = false
Ret(api, res, more, src) ==
    [api |-> api, r |-> res.r, filename |-> res.filename, err |-> res.err,
     more |-> more, src |-> src]

NumDone == Cardinality({k \in 1..Len(rets) : ~rets[k].more})

\* the once.Do block: spawn the goroutine that runs extract and closes e.c
OnceDo ==
    IF OnceFires(once)
    THEN /\ once' = TRUE
         /\ pstate' = "running"
         /\ stack' = <<Frame(FS(er, filename, "nil"), input, <<>>)>>
         /\ spawned' = spawned + 1
         /\ log' = log \o <<Ev("new", <<>>), Ev("call", <<>>)>>
    ELSE UNCHANGED <<once, pstate, stack, spawned, log>>

Call(api) ==
    /\ pstate # "crashed"
    /\ cpc = "idle"
    /\ NumDone <= MaxExtraPulls
    /\ OnceDo
    /\ cpc' = "recv"
    /\ capi' = api
    /\ calls' = calls + 1
    /\ UNCHANGED <<input, er, filename, chanbuf, closed, rets, sent, nrecv, dropped, peeks>>

CallNext == Call("Next")

CallNextWithError == Call("NextWithError")

\* the receiving call gets fs with more = true: Next skips it or returns
\* it, NextWithError returns it
Deliver(fs) ==
    /\ nrecv' = nrecv + 1
    /\ IF capi = "Next" /\ NextSkips(fs)
       THEN /\ dropped' = Append(dropped, fs)
            /\ UNCHANGED <<cpc, rets>>
       ELSE /\ rets' = Append(rets, Ret(capi, Result(capi, fs), TRUE, nrecv + 1))
            /\ cpc' = "idle"
            /\ dropped' = dropped

\* `e.c <- fs` completes: into the buffer when there is room, else straight
\* to a consumer blocked in `<-e.c`
ChanSend ==
    /\ At("send")
    /\ stack' = SetTop([Top EXCEPT !.pc = Top.after, !.snd = NoFS])
    /\ IF Len(chanbuf) < ChanCap
       THEN /\ chanbuf' = Append(chanbuf, Top.snd)
            /\ UNCHANGED <<cpc, rets, nrecv, dropped>>
       ELSE /\ cpc = "recv"
            /\ chanbuf = <<>>
            /\ chanbuf' = chanbuf
            /\ Deliver(Top.snd)
    /\ UNCHANGED <<input, er, filename, once, closed, pstate, capi, sent, spawned,
                   peeks, calls, log>>

\* `<-e.c` completes with no sender involved: a buffered value, or the zero
\* value and more = false once the channel is closed
ChanRecv ==
    /\ pstate # "crashed"
    /\ cpc = "recv"
    /\ IF chanbuf # <<>>
       THEN /\ chanbuf' = Tail(chanbuf)
            /\ Deliver(Head(chanbuf))
       ELSE /\ closed
            /\ chanbuf' = chanbuf
            /\ rets' = Append(rets, Ret(capi, NoFS, FALSE, 0))
            /\ cpc' = "idle"
            /\ UNCHANGED <<nrecv, dropped>>
    /\ UNCHANGED <<input, er, filename, once, closed, pstate, stack, capi, sent,
                   spawned, peeks, calls, log>>

Next ==
    \/ CallNext \/ CallNextWithError \/ ChanSend \/ ChanRecv
    \/ ExtractGzip \/ ExtractBzip2 \/ ExtractZip \/ ZipRange
    \/ ExtractTar \/ TarNext \/ ExtractRar \/ RarNext
    \/ ExtractXz \/ ExtractLz4 \/ ExtractLeaf
    \/ Return \/ GoClose

Spec == Init /\ [][Next]_vars

(***************************************************************************)
(* Notions the properties are stated with.                                 *)
(***************************************************************************)
\* the filestreams the consumer has received so far, in order
Received == [k \in 1..nrecv |-> sent[k].fs]

IsNil(fs) == fs.err = "nil"

IsMore(ret) == ret.more

Pair(x) == <<x.r, x.filename>>

Triple(x) == <<x.r, x.filename, x.err>>

\* the calls that returned more = true, in order
MoreRets == SelectSeq(rets, IsMore)

\* every call of the session so far, the current one included, is of `api`
Only(api) ==
    /\ \A k \in 1..Len(rets) : rets[k].api = api
    /\ cpc = "recv" => capi = api

Exhausted == NumDone >= 1

\* p comes before q in depth-first pre-order
Before(p, q) ==
    \/ Len(p) < Len(q) /\ SubSeq(q, 1, Len(p)) = p
    \/ \E i \in 1..Len(p) :
        /\ i <= Len(q)
        /\ SubSeq(p, 1, i - 1) = SubSeq(q, 1, i - 1)
        /\ p[i] < q[i]

(***************************************************************************)
(* C1: Next never returns an error-carrying filestream: each filestream it *)
(* returns has err nil and is returned with its reader and name, each one  *)
(* it discards carries an error and leaves the call waiting, and in a      *)
(* session pulled with Next alone the (reader, filename) pairs returned    *)
(* are, in order, those of the err = nil filestreams among the received    *)
(* ones, which are what NextWithError would have returned one by one.      *)
(***************************************************************************)
C1_NextFiltersErrors ==
    /\ \A k \in 1..Len(rets) :
        rets[k].api = "Next" /\ rets[k].more =>
            /\ IsNil(sent[rets[k].src].fs)
            /\ Pair(rets[k]) = Pair(sent[rets[k].src].fs)
    /\ \A k \in 1..Len(dropped) : ~IsNil(dropped[k])
    /\ Len(MoreRets) + Len(dropped) = nrecv
    /\ Only("Next") =>
        LET good == SelectSeq(Received, IsNil)
        IN  /\ Len(MoreRets) = Len(good)
            /\ \A k \in 1..Len(good) : Pair(MoreRets[k]) = Pair(good[k])

\* a session pulled with Next alone to exhaustion, in which Next returned
\* two filestreams and discarded one
C1_Witness ==
    /\ Only("Next") /\ Exhausted
    /\ Len(MoreRets) >= 2
    /\ Len(dropped) >= 1

(***************************************************************************)
(* C2 as claimed: each NextWithError call returns one event of the         *)
(* producer verbatim, and more = false is returned exactly once, after the *)
(* producer has finished the walk and closed the channel.                  *)
(***************************************************************************)
NWEVerbatim ==
    /\ \A k \in 1..Len(rets) :
        rets[k].api = "NextWithError" /\ rets[k].more =>
            Triple(rets[k]) = Triple(sent[rets[k].src].fs)
    /\ Only("NextWithError") =>
        /\ Len(MoreRets) = nrecv
        /\ \A k \in 1..Len(MoreRets) : MoreRets[k].src = k

DoneOnlyAtExhaustion ==
    \A k \in 1..Len(rets) :
        ~rets[k].more =>
            /\ closed /\ pstate = "done" /\ stack = <<>>
            /\ nrecv = Len(sent)
            /\ Triple(rets[k]) = Triple(NoFS)

C2_AsClaimed ==
    /\ NWEVerbatim
    /\ DoneOnlyAtExhaustion
    /\ NumDone <= 1

(***************************************************************************)
(* C2 amended: each NextWithError call that returns more = true returns    *)
(* one event of the producer verbatim, none skipped; more = false is       *)
(* returned only after the producer has finished the whole walk and closed *)
(* the channel, and then by every later call, not once only.               *)
(***************************************************************************)
C2_NWEVerbatimDoneAfterClose ==
    /\ NWEVerbatim
    /\ DoneOnlyAtExhaustion
    /\ \A j, k \in 1..Len(rets) : j < k /\ ~rets[j].more => ~rets[k].more

\* NextWithError alone: an error event returned verbatim, then more = false
\* twice
C2_Witness ==
    /\ Only("NextWithError")
    /\ NumDone = 2
    /\ \E k \in 1..Len(rets) : rets[k].more /\ rets[k].err # "nil"

(***************************************************************************)
(* C3: the producer is started lazily and exactly once: before the first   *)
(* call no producer exists and nothing has been read from the input; after *)
(* the first call, and after any number and mix of calls, exactly one      *)
(* producer has ever been spawned.                                         *)
(***************************************************************************)
C3_ProducerStartedOnce ==
    /\ calls = 0 => spawned = 0 /\ pstate = "none" /\ peeks = 0 /\ ~once
    /\ calls >= 1 => spawned = 1 /\ once

\* three calls of both kinds have been made
C3_Witness ==
    /\ calls >= 3
    /\ \E j, k \in 1..Len(rets) : rets[j].api = "Next" /\ rets[k].api = "NextWithError"
    /\ spawned = 1

(***************************************************************************)
(* C4: back-pressure: nothing is buffered in the channel, at most one      *)
(* filestream has been given to a send and not yet received, and while one *)
(* is, the producer takes no step: it reads no stream, takes no entry,     *)
(* attempts no other send, until the consumer receives it.                 *)
(***************************************************************************)
InFlight == Len(sent) - nrecv

C4_BackPressure ==
    [][/\ chanbuf' = <<>>
       /\ Len(sent') - nrecv' \in {0, 1}
       /\ InFlight = 1 /\ nrecv' = nrecv =>
            /\ stack' = stack /\ sent' = sent /\ peeks' = peeks
            /\ pstate' = pstate /\ closed' = closed]_vars

\* the producer is blocked in its second send while the consumer is between
\* two calls
C4_Witness ==
    /\ InFlight = 1 /\ nrecv >= 1
    /\ cpc = "idle"
    /\ At("send")

(***************************************************************************)
(* C5: delivery order: the filestreams are sent, and received, in          *)
(* depth-first pre-order of the nesting, so that everything coming from    *)
(* entry i of a container precedes everything coming from entry i+1.       *)
(***************************************************************************)
C5_PreOrder ==
    /\ \A j, k \in 1..Len(sent) : j < k => Before(sent[j].path, sent[k].path)
    /\ \A j, k \in 1..Len(rets) :
        j < k /\ rets[j].more /\ rets[k].more => rets[j].src < rets[k].src

\* the walk of a bzip2 inside a rar inside a tar inside a gzip, or of a
\* top-level zip holding a tar, has been delivered to the end
C5_Witness ==
    /\ input \in {ScenarioNested, ScenarioZip}
    /\ input = ScenarioZip => er = "osfile"
    /\ Exhausted
    /\ nrecv >= 4

(***************************************************************************)
(* C6 as claimed: eventual exhaustion: a consumer that keeps pulling is    *)
(* never left without a way on before it has received more = false, and   *)
(* the channel is closed only after the top-level extract has returned     *)
(* and everything it sent has been received.                               *)
(***************************************************************************)
C6_AsClaimed ==
    /\ Exhausted \/ ENABLED Next
    /\ closed => pstate = "done" /\ stack = <<>> /\ nrecv = Len(sent)

(***************************************************************************)
(* C7 as claimed: when the entry iteration of a tar or rar stops, by       *)
(* end-of-entries or by any other failure, the producer sends one          *)
(* filestream carrying that condition and then returns from the container; *)
(* the producer does not crash.                                            *)
(***************************************************************************)
IterationOver == (At("tloop") \/ At("rloop")) /\ Top.i = Len(Top.node.kids)

C7_AsClaimed ==
    [][IterationOver /\ (stack' # stack \/ pstate' # pstate) =>
        /\ pstate' = "running"
        /\ Len(sent') = Len(sent) + 1
        /\ sent'[Len(sent')].fs.err = (IF Top.node.end = "EOF" THEN "EOF" ELSE "iterErr")
        /\ stack'[Len(stack')].pc = "send"
        /\ stack'[Len(stack')].after = "ret"]_vars

(***************************************************************************)
(* C8 as claimed: for a zip, tar or rar whose regular entries are all of   *)
(* unrecognized format, no directory entry leads to a send, and the        *)
(* number of filestreams Next returns is the number of regular entries     *)
(* minus the number of entries that fail to open.                          *)
(***************************************************************************)
\* the input is a container that extract enumerates, holding leaves only
FlatContainer ==
    /\ input.fmt \in {"zip", "tar", "rar"}
    /\ input.ctor = "ok"
    /\ input.fmt = "zip" => er = "osfile"
    /\ \A k \in 1..Len(input.kids) : input.kids[k].content = Leaf

Regular == {k \in 1..Len(input.kids) : ~input.kids[k].dir}

FailOpen == {k \in Regular : ~input.kids[k].openOk}

C8_AsClaimed ==
    FlatContainer =>
        /\ \A j \in 1..Len(sent) :
            \A k \in 1..Len(input.kids) : sent[j].path = <<k>> => ~input.kids[k].dir
        /\ Only("Next") /\ Exhausted =>
            Len(MoreRets) = Cardinality(Regular) - Cardinality(FailOpen)

(***************************************************************************)
(* C9 as claimed: the child of a gzip, bzip2, xz or lz4 stream is named    *)
(* with the parent name with the format's suffix stripped when the last    *)
(* name segment's extension is that suffix, and with the parent name       *)
(* unchanged when it is not.                                               *)
(***************************************************************************)
Suffix(fmt) ==
    CASE fmt = "gzip" -> ExtGz
      [] fmt = "bzip2" -> ExtBz2
      [] fmt = "xz" -> ExtXz
      [] fmt = "lz4" -> ExtLz4

ClaimedChildName(fname, sep, suffix) ==
    IF Ext(LastSegment(fname, sep)) = suffix
    THEN SubSeq(fname, 1, Len(fname) - Len(suffix))
    ELSE fname

C9_AsClaimed ==
    \A j \in 1..(Len(stack) - 1) :
        stack[j].node.fmt \in {"gzip", "bzip2", "xz", "lz4"} =>
            /\ stack[j].pc = "ret"
            /\ stack[j + 1].f.filename =
                 ClaimedChildName(stack[j].f.filename, Sep, Suffix(stack[j].node.fmt))

(***************************************************************************)
(* C10 as claimed: for "x.tar.gz", a gzip without stored name of a tar of  *)
(* a.txt, b/ and c.bin, repeated Next calls return "x.tar.gz:a.txt", then  *)
(* "x.tar.gz:c.bin", then more = false.                                    *)
(***************************************************************************)
C10_AsClaimed ==
    /\ input = ScenarioXTarGz /\ filename = NameXTarGz
    /\ Only("Next") /\ Exhausted
    =>  /\ Len(rets) >= 3
        /\ rets[1].more /\ rets[1].filename = NameXTarGz \o Sep \o NameATxt
        /\ rets[2].more /\ rets[2].filename = NameXTarGz \o Sep \o NameCBin
        /\ ~rets[3].more

(***************************************************************************)
(* C11 as claimed: for an input detected as gzip whose decoder cannot be   *)
(* constructed, NextWithError returns one event, with the original         *)
(* filename, the construction failure as err and a buffered reader still   *)
(* at the start of the input, and the next pull returns more = false.      *)
(***************************************************************************)
C11_AsClaimed ==
    input = GzipBad /\ Only("NextWithError") /\ Exhausted =>
        /\ Len(sent) = 1
        /\ sent[1].fs = FSAt("bufio", filename, "ctorErr", 0)
        /\ rets[1].more /\ rets[1].src = 1
        /\ Triple(rets[1]) = <<"bufio", filename, "ctorErr">>
        /\ ~rets[2].more

(***************************************************************************)
(* C13: for an input of unrecognized format the session yields exactly one *)
(* filestream, with err nil, the filename given to New and a buffered      *)
(* reader from which nothing has been consumed (the peek reads nothing     *)
(* away), and every pull after it returns more = false.                    *)
(***************************************************************************)
C13_LeafUnchanged ==
    input.fmt = "none" =>
        /\ Len(sent) <= 1
        /\ \A j \in 1..Len(sent) : sent[j].fs = FSAt("bufio", filename, "nil", 0)
        /\ Exhausted => Len(sent) = 1 /\ nrecv = 1
        /\ \A k \in 1..Len(rets) :
            IF k = 1
            THEN /\ rets[k].more /\ rets[k].src = 1
                 /\ Triple(rets[k]) = <<"bufio", filename, "nil">>
            ELSE ~rets[k].more

\* the leaf has been returned and the pull after it has returned more = false
C13_Witness ==
    /\ input.fmt = "none"
    /\ Len(rets) >= 2
    /\ rets[1].more /\ ~rets[2].more

(***************************************************************************)
(* C12: a filestream detected as zip whose reader is not an *os.File is    *)
(* sent exactly once, with err NestError, its own filename and a buffered  *)
(* reader from which nothing has been consumed; extract neither crashes on *)
(* it nor enumerates or recurses into it, and its caller goes on with its  *)
(* loop.                                                                   *)
(***************************************************************************)
SentAt(path) == {j \in 1..Len(sent) : sent[j].path = path}

C12_NestErrorLeaf ==
    /\ \A j \in 1..Len(stack) :
        stack[j].node.fmt = "zip" /\ stack[j].f.r # "osfile" =>
            /\ pstate = "running"
            /\ j = Len(stack)
            /\ stack[j].pc \in {"start", "send", "ret"} /\ stack[j].i = 0
            /\ stack[j].pc = "start" => SentAt(stack[j].path) = {}
            /\ stack[j].pc \in {"send", "ret"} =>
                /\ Cardinality(SentAt(stack[j].path)) = 1
                /\ \A k \in SentAt(stack[j].path) :
                    sent[k].fs = FSAt("bufio", stack[j].f.filename, "NestError", 0)
            /\ j >= 2 => stack[j - 1].pc \in {"ret", "zloop", "tloop", "rloop"}
    /\ \A j, k \in 1..Len(sent) :
        sent[j].fs.err = "NestError" /\ j # k => sent[j].path # sent[k].path

\* a zip nested in a container was received as a NestError filestream and a
\* later sibling was received after it
C12_Witness ==
    \E j, k \in 1..nrecv :
        /\ j < k
        /\ sent[j].fs.err = "NestError" /\ Len(sent[j].path) = 1
        /\ sent[k].fs.err = "nil" /\ Len(sent[k].path) = 1

(***************************************************************************)
(* C14: when the consumer has stopped pulling after the producer was       *)
(* started and the walk is not exhausted, the producer comes to rest only  *)
(* blocked in a channel send, with the channel open and the producer not   *)
(* terminated; it takes no step of the walk from there.                    *)
(***************************************************************************)
ProducerStep ==
    \/ ChanSend
    \/ ExtractGzip \/ ExtractBzip2 \/ ExtractZip \/ ZipRange
    \/ ExtractTar \/ TarNext \/ ExtractRar \/ RarNext
    \/ ExtractXz \/ ExtractLz4 \/ ExtractLeaf
    \/ Return \/ GoClose

\* the consumer is between calls, having made at least one
Stopped == calls >= 1 /\ cpc = "idle"

\* every filestream of the walk was sent and received, the channel is closed
WalkExhausted == pstate = "done" /\ closed /\ nrecv = Len(sent)

BlockedInSend == At("send") /\ ~closed /\ pstate = "running"

C14_AsClaimed ==
    Stopped /\ ~ENABLED ProducerStep => BlockedInSend \/ WalkExhausted

(***************************************************************************)
(* C15: every filestream built during a walk is built once and resolved    *)
(* exactly once: either extract opens it and goes on to its content        *)
(* (recursed into) or it is sent on the channel, never both, and never     *)
(* neither once extract has looked at it; a filestream not handed to an    *)
(* extract call is sent where it is built; when the walk is exhausted the  *)
(* number of filestreams built equals the number of resolutions.           *)
(***************************************************************************)
Count(ev, path) == Cardinality({k \in 1..Len(log) : log[k] = Ev(ev, path)})

Total(ev) == Cardinality({k \in 1..Len(log) : log[k].ev = ev})

Built == {log[k].path : k \in {j \in 1..Len(log) : log[j].ev = "new"}}

Resolutions(path) == Count("open", path) + Count("send", path)

\* extract has been called with the filestream and has not yet branched
Pending(path) ==
    \E j \in 1..Len(stack) : stack[j].path = path /\ stack[j].pc = "start"

PathPrefix(p, q) == Len(p) <= Len(q) /\ SubSeq(q, 1, Len(p)) = p

Returns == Len(stack') < Len(stack)

C16_AsClaimed ==
    [][Returns => \E j \in 1..Len(sent) : PathPrefix(Top.path, sent[j].path)]_vars

(***************************************************************************)
(* C17: every filestream given to a send on e.c, markers of a failed open  *)
(* and of the end of the entries included, carries a *bufio.Reader, so the *)
(* type assertion of Next and NextWithError on a received filestream never *)
(* panics and every call that returns more = true returns that reader.     *)
(***************************************************************************)
C17_SentReadersBuffered ==
    /\ \A j \in 1..Len(sent) : sent[j].fs.r = "bufio"
    /\ \A j \in 1..Len(chanbuf) : chanbuf[j].r = "bufio"
    /\ \A k \in 1..Len(rets) :
        /\ rets[k].r # "panic"
        /\ rets[k].more => rets[k].r = "bufio"

\* NextWithError has returned the marker of a zip entry that failed to open
\* and, in another call, a filestream without error
C17_Witness ==
    \E k, l \in 1..Len(rets) :
        /\ rets[k].more /\ rets[k].err = "openErr" /\ rets[k].r = "bufio"
        /\ rets[l].more /\ rets[l].err = "nil" /\ rets[l].r = "bufio"

(***************************************************************************)
(* C18: once a call has returned more = false, every later Next or         *)
(* NextWithError call returns more = false with a nil reader, an empty     *)
(* filename and a nil error; such a call never waits for the producer (its *)
(* receive on the closed channel can complete at once) and no second       *)
(* producer is started.                                                    *)
(***************************************************************************)
C18_StaysExhausted ==
    /\ \A k, l \in 1..Len(rets) :
        k < l /\ ~rets[k].more =>
            /\ ~rets[l].more
            /\ rets[l].r = "nil" /\ rets[l].filename = <<>> /\ rets[l].err = "nil"
    /\ Exhausted =>
        /\ spawned = 1
        /\ pstate = "done" /\ stack = <<>>
        /\ closed /\ chanbuf = <<>>
        /\ cpc = "recv" => ENABLED ChanRecv

\* more = false was returned twice, once by each method
C18_Witness ==
    \E k, l \in 1..Len(rets) :
        /\ k < l /\ ~rets[k].more /\ ~rets[l].more
        /\ rets[k].api # rets[l].api

(***************************************************************************)
(* C19: the entries of a zip are walked only for the top-level input, and  *)
(* only when e.r is an *os.File; a zip found at depth one or more is given *)
(* to extract with a reader that is not an *os.File, is sent as a          *)
(* NestError filestream, and no filestream is ever built from its entries. *)
(***************************************************************************)
Below(p, q) == PathPrefix(p, q) /\ p # q

C19_ZipOnlyTopLevelFile ==
    /\ \A j \in 1..Len(stack) :
        /\ stack[j].pc = "zloop" =>
            /\ j = 1 /\ stack[j].path = <<>>
            /\ er = "osfile" /\ stack[j].f.r = "osfile"
        /\ stack[j].node.fmt = "zip" /\ (j >= 2 \/ er # "osfile") =>
            /\ stack[j].f.r # "osfile"
            /\ stack[j].pc \in {"start", "send", "ret"}
            /\ Count("open", stack[j].path) = 0
            /\ stack[j].pc # "start" =>
                \E k \in 1..Len(sent) :
                    /\ sent[k].path = stack[j].path
                    /\ sent[k].fs.err = "NestError"
    /\ \A k \in 1..Len(sent) :
        sent[k].fs.err = "NestError" =>
            /\ Count("open", sent[k].path) = 0
            /\ \A q \in Built : ~Below(sent[k].path, q)
    /\ input.fmt = "zip" /\ Count("open", <<>>) = 1 => er = "osfile"

\* the top-level zip, an *os.File, was opened and a zip among its entries
\* was received as a NestError filestream
C19_Witness ==
    /\ input.fmt = "zip" /\ er = "osfile" /\ Count("open", <<>>) = 1
    /\ \E k \in 1..nrecv :
        sent[k].fs.err = "NestError" /\ Len(sent[k].path) >= 1

====
